---- MODULE Spec2Model ----
(***************************************************************************)
(* Model of the VPN subscription service of 3xui-shop:                     *)
(*   app/bot/services/vpn.py            VPNService                         *)
(*   app/bot/middlewares/database.py    DBSessionMiddleware                *)
(*   app/bot/routers/subscription/promocode_handler.py                     *)
(* The panel (3XUI) and the database are shared state; every coroutine is  *)
(* a process whose steps are the stretches of code between two awaits.     *)
(***************************************************************************)
EXTENDS Integers, Sequences, FiniteSets, TLC

(***************************************************************************)
(* Bounds of the model.                                                    *)
(***************************************************************************)
MaxTraffic == 1      \* traffic arguments range over 0..MaxTraffic (GB)
MaxDuration == 1     \* duration arguments range over 0..MaxDuration (days)
MaxTicks == 1        \* milliseconds the clock may advance in one behaviour

Procs == {1, 2}                 \* coroutines; each runs one invocation
UserIds == {1, 2}               \* Telegram ids; 2 has no User row
Codes == {"PROMO", "NOCODE"}    \* promocode strings a user may type
NowStart == 1000                \* epoch milliseconds of the first instant

\* Python None where an object is expected, and a missing User row
None == [none |-> TRUE]
NoRow == "NoRow"

(***************************************************************************)
(* Python integers are unbounded.  Byte counts are kept as two limbs       *)
(* gb * 2^30 + b with 0 <= b < 2^30, so that traffic * 1024**3 is computed *)
(* exactly.                                                                *)
(***************************************************************************)
bytes_in_gb == 1073741824

Bytes(n) == [gb |-> n \div bytes_in_gb, b |-> n % bytes_in_gb]

BAdd(x, y) ==
    LET s == x.b + y.b
    IN  [gb |-> x.gb + y.gb + (s \div bytes_in_gb), b |-> s % bytes_in_gb]

BNeg(x) ==
    IF x.b = 0 THEN [gb |-> 0 - x.gb, b |-> 0]
    ELSE [gb |-> 0 - x.gb - 1, b |-> bytes_in_gb - x.b]

BSub(x, y) == BAdd(x, BNeg(y))

BLeqZero(x) == x.gb < 0 \/ (x.gb = 0 /\ x.b = 0)

\* int(traffic_gb * bytes_in_gb)
gb_to_bytes(traffic_gb) == [gb |-> traffic_gb, b |-> 0]

(***************************************************************************)
(* IEEE-754 double arithmetic on bit strings (most significant bit first), *)
(* as used by datetime.timestamp() * 1000 and int().                       *)
(***************************************************************************)
MantissaBits == 53
MsPerSecond == 1000
MsPerDay == 86400000

LimbBits == 20
Limb == 1048576      \* 2^LimbBits

\* The binary digits of n, 0 <= n < 2^31, without leading zeros
BitsOf(n) ==
    LET len == Cardinality({k \in 0..30 : 2^k <= n})
    IN  [i \in 1..len |-> (n \div 2^(len - i)) % 2]

\* The LimbBits binary digits of a limb, leading zeros kept
LimbDigits(n) == [i \in 1..LimbBits |-> (n \div 2^(LimbBits - i)) % 2]

\* The number a bit string of at most 31 bits denotes
RECURSIVE ValueOf(_)
ValueOf(bs) ==
    IF bs = <<>> THEN 0
    ELSE IF Len(bs) = 1 THEN bs[1]
    ELSE LET h == Len(bs) \div 2
         IN  ValueOf(SubSeq(bs, 1, h)) * 2^(Len(bs) - h)
               + ValueOf(SubSeq(bs, h + 1, Len(bs)))

\* bs without its leading zeros (bs holds a 1)
Normalized(bs) ==
    LET first == CHOOSE i \in 1..Len(bs) :
                    bs[i] = 1 /\ \A k \in 1..(i - 1) : bs[k] = 0
    IN  SubSeq(bs, first, Len(bs))

\* bs + 1
Inc(bs) ==
    IF \A i \in 1..Len(bs) : bs[i] = 1
    THEN <<1>> \o [i \in 1..Len(bs) |-> 0]
    ELSE LET last == CHOOSE i \in 1..Len(bs) :
                        bs[i] = 0 /\ \A k \in (i + 1)..Len(bs) : bs[k] = 1
         IN  [i \in 1..Len(bs) |->
                 IF i < last THEN bs[i] ELSE IF i = last THEN 1 ELSE 0]

\* Round a bit string of more than 53 bits to 53 bits, ties to even.
\* The result is m * 2^shift in units of the last bit of bs.
RoundToDouble(bs, sticky0) ==
    LET L == Len(bs)
        keep == SubSeq(bs, 1, MantissaBits)
        sticky == sticky0 \/ (\E i \in (MantissaBits + 2)..L : bs[i] = 1)
        up == bs[MantissaBits + 1] = 1 /\ (sticky \/ keep[MantissaBits] = 1)
        r == IF up THEN Inc(keep) ELSE keep
    IN  IF Len(r) > MantissaBits
        THEN [m |-> SubSeq(r, 1, MantissaBits), shift |-> L - MantissaBits + 1]
        ELSE [m |-> r, shift |-> L - MantissaBits]

\* n / d for 0 < n, 0 < d <= 1000: the integer part followed by
\* 4 * LimbBits fractional binary digits, and the remainder left.
DivBits(n, d) ==
    LET r0 == n % d
        d1 == (r0 * Limb) \div d
        r1 == (r0 * Limb) % d
        d2 == (r1 * Limb) \div d
        r2 == (r1 * Limb) % d
        d3 == (r2 * Limb) \div d
        r3 == (r2 * Limb) % d
        d4 == (r3 * Limb) \div d
        r4 == (r3 * Limb) % d
    IN  [bits |-> Normalized(BitsOf(n \div d) \o LimbDigits(d1)
                     \o LimbDigits(d2) \o LimbDigits(d3) \o LimbDigits(d4)),
         rem |-> r4, frac |-> 4 * LimbBits]

\* m * c for a 53-bit mantissa m and 0 < c <= 1000
MulSmall(m, c) ==
    LET l0 == ValueOf(SubSeq(m, MantissaBits - LimbBits + 1, MantissaBits))
        l1 == ValueOf(SubSeq(m, MantissaBits - 2 * LimbBits + 1,
                             MantissaBits - LimbBits))
        l2 == ValueOf(SubSeq(m, 1, MantissaBits - 2 * LimbBits))
        t0 == l0 * c
        t1 == l1 * c + (t0 \div Limb)
        t2 == l2 * c + (t1 \div Limb)
    IN  BitsOf(t2) \o LimbDigits(t1 % Limb) \o LimbDigits(t0 % Limb)

\* int(dt.timestamp() * 1000) for the datetime dt that lies ms milliseconds
\* after the epoch (0 <= ms < 2^31): timestamp() is the double nearest
\* ms / 1000, the product is rounded to a double again and int() truncates.
timestamp_ms(ms) ==
    IF ms = 0 THEN 0
    ELSE LET q == DivBits(ms, MsPerSecond)
             y == RoundToDouble(q.bits, q.rem # 0)
             z == RoundToDouble(MulSmall(y.m, MsPerSecond), FALSE)
             e == z.shift + y.shift - q.frac
         IN  IF MantissaBits + e <= 0 THEN 0
             ELSE ValueOf(SubSeq(z.m, 1, MantissaBits + e))

\* now + timedelta(days=days), converted by int(timestamp() * 1000)
days_to_timestamp(t, days) == timestamp_ms(t + days * MsPerDay)

\* datetime.fromtimestamp(timestamp / 1000) is the exact instant for a
\* millisecond count; the days are added exactly; the conversion back is
\* the floating-point one.
add_days_to_timestamp(timestamp, days) == timestamp_ms(timestamp + days * MsPerDay)

(***************************************************************************)
(* State.                                                                  *)
(***************************************************************************)
VARIABLES
    users,        \* User rows: tg_id -> vpn_id, or NoRow
    promocodes,   \* Promocode rows: code -> record, or None
    panel,        \* remote clients by email (= str(user id)), or None
    now,          \* the latest datetime.now() reading, epoch milliseconds
    proc,         \* the coroutines: position and locals
    promoMutations, \* per code: attempts that issued a panel add or update
    logged_in,    \* the panel session: api.login() has succeeded
    startup       \* the process: "calling" initialize, "returned", "raised",
                  \* "serving" requests, or "stopped"

vars == <<users, promocodes, panel, now, proc, promoMutations, logged_in, startup>>

flow == "xtls-rprx-vision"
limit_ip == 3

Idle == [pc |-> "idle", op |-> "none", user |-> 0, vpn_id |-> NoRow,
         traffic |-> 0, duration |-> 0,
         replace_traffic |-> FALSE, replace_duration |-> FALSE,
         code |-> "", is_bot |-> FALSE, promoSeen |-> "none",
         before |-> None, old |-> None, nowAt |-> 0, client |-> None,
         sentAdd |-> None, sentUpdate |-> None,
         lookups |-> 0, adds |-> 0, updates |-> 0, resets |-> 0,
         existsResult |-> "none", getResult |-> "none",
         addResult |-> "none", updateResult |-> "none",
         resetResult |-> "none",
         wrote |-> 0, consumed |-> FALSE, ret |-> "pending", view |-> None,
         shown |-> "none", handlerCalled |-> FALSE, dataUser |-> NoRow,
         overlap |-> {}]

Active(q) == proc[q].pc \notin {"idle", "done"}

\* The User table at start: id 1 has a row, id 2 has none.
UserRows == [u \in UserIds |-> IF u = 1 THEN "uuid-1" ELSE NoRow]

\* Remote clients the panel may hold for user u before the bot acts
InitClients(u) ==
    { [id |-> UserRows[u], sub_id |-> UserRows[u], total |-> t, up |-> ud[1],
       down |-> ud[2], expiry_time |-> e] :
        t \in {Bytes(0 - 1), Bytes(0), Bytes(3)},
        ud \in {<<Bytes(0), Bytes(0)>>, <<Bytes(1), Bytes(1)>>,
                <<Bytes(2), Bytes(3)>>},
        e \in {0, 1001, 44672001} }

InitPromocodes ==
    { [c \in Codes |-> IF c = "PROMO"
                       THEN [code |-> c, traffic |-> 1, duration |-> 1,
                             is_activated |-> a]
                       ELSE None] : a \in BOOLEAN }

InitWith(clients) ==
    /\ users = UserRows
    /\ promocodes \in InitPromocodes
    /\ panel \in { [u \in UserIds |-> IF u = 1 THEN c ELSE None] :
                     c \in {None} \cup clients }
    /\ now = NowStart
    /\ proc = [p \in Procs |-> Idle]
    /\ promoMutations = [c \in Codes |-> 0]
    /\ logged_in = FALSE
    /\ startup = "calling"

\* Two concurrent coroutines, one remote client state
Init ==
    InitWith({[id |-> "uuid-1", sub_id |-> "uuid-1", total |-> Bytes(3),
               up |-> Bytes(1), down |-> Bytes(1), expiry_time |-> 1001]})

\* One coroutine, every remote client state of InitClients
InitSeq == InitWith(InitClients(1))

Set(p, r) == proc' = [proc EXCEPT ![p] = r]

\* Requests reach the handlers and the service only while the process serves
Serving == startup = "serving"

\* A free slot; slot 2 is taken after slot 1 (the slots are interchangeable).
CanStart(p) ==
    Serving /\ proc[p].pc = "idle" /\ (p = 1 \/ proc[1].pc # "idle")

\* The instants datetime.now() may return at the next reading of the clock
ClockReadings == now..(NowStart + MaxTicks)

(***************************************************************************)
(* Pure parts of VPNService.                                               *)
(***************************************************************************)
\* the view with the remaining traffic clamped at 0
ClientDataClamped(client) ==
    LET used == BAdd(client.up, client.down)
        unlimited == BLeqZero(client.total)
        left == BSub(client.total, used)
    IN  [traffic_total |-> IF unlimited THEN Bytes(0 - 1) ELSE client.total,
         traffic_remaining |-> IF unlimited THEN Bytes(0 - 1)
                               ELSE IF left.gb < 0 THEN Bytes(0) ELSE left,
         traffic_used |-> used,
         traffic_up |-> client.up,
         traffic_down |-> client.down,
         expiry_time |-> IF client.expiry_time = 0 THEN 0 - 1
                         ELSE client.expiry_time]

\* get_client_data, lines 101-118: the view derived from a remote client
ClientData(client) ==
    LET used == BAdd(client.up, client.down)
        unlimited == BLeqZero(client.total)
    IN  [traffic_total |-> IF unlimited THEN Bytes(0 - 1) ELSE client.total,
         traffic_remaining |-> IF unlimited THEN Bytes(0 - 1)
                               ELSE BSub(client.total, used),
         traffic_used |-> used,
         traffic_up |-> client.up,
         traffic_down |-> client.down,
         expiry_time |-> IF client.expiry_time = 0 THEN 0 - 1
                         ELSE client.expiry_time]

\* update_client, lines 154-159
NewTrafficBytes(client, traffic, replace_traffic) ==
    IF replace_traffic THEN gb_to_bytes(traffic)
    ELSE BAdd(client.total, gb_to_bytes(traffic))

\* update_client, lines 161-164
NewExpiryTime(client, duration, replace_duration, t) ==
    IF replace_duration THEN days_to_timestamp(t, duration)
    ELSE add_days_to_timestamp(client.expiry_time, duration)

\* update_client, lines 166-171: the client object handed to api.client.update
UpdatedClient(client, vpn_id, traffic, duration, replace_traffic, replace_duration, t) ==
    [id |-> vpn_id, sub_id |-> vpn_id, flow |-> flow, limit_ip |-> limit_ip,
     expiry_time |-> NewExpiryTime(client, duration, replace_duration, t),
     total_gb |-> NewTrafficBytes(client, traffic, replace_traffic)]

\* the new client with the traffic passed on in GB, unconverted
NewClientRawTraffic(user_id, vpn_id, traffic, duration, t) ==
    [email |-> user_id, enable |-> TRUE, id |-> vpn_id,
     expiryTime |-> days_to_timestamp(t, duration), flow |-> flow,
     limitIp |-> limit_ip, sub_id |-> vpn_id,
     totalGB |-> Bytes(traffic)]

\* create_client, lines 193-202: the client object handed to api.client.add
NewClient(user_id, vpn_id, traffic, duration, t) ==
    [email |-> user_id, enable |-> TRUE, id |-> vpn_id,
     expiryTime |-> days_to_timestamp(t, duration), flow |-> flow,
     limitIp |-> limit_ip, sub_id |-> vpn_id,
     totalGB |-> gb_to_bytes(traffic)]

(***************************************************************************)
(* VPNService.create_subscription / activate_promocode / update_client.    *)
(***************************************************************************)
\* create_subscription, lines 278-279: User.get; a missing row makes
\* user.user_id raise AttributeError.
create_subscription(p, user_id, traffic, duration) ==
    /\ CanStart(p)
    /\ Set(p, [Idle EXCEPT !.op = "create_subscription",
                 !.user = user_id, !.vpn_id = users[user_id],
                 !.traffic = traffic, !.duration = duration,
                 !.before = panel[user_id],
                 !.overlap = {q \in Procs \ {p} : Active(q)},
                 !.pc = IF users[user_id] = NoRow THEN "done" ELSE "exists",
                 !.ret = IF users[user_id] = NoRow THEN "raised"
                         ELSE "pending"])
    /\ UNCHANGED <<logged_in, startup, users, promocodes, panel, now, promoMutations>>

\* A direct call of update_client with both flags chosen by the caller.
update_client(p, user_id, traffic, duration, replace_traffic, replace_duration) ==
    /\ CanStart(p)
    /\ users[user_id] # NoRow
    /\ Set(p, [Idle EXCEPT !.op = "update_client",
                 !.user = user_id, !.vpn_id = users[user_id],
                 !.traffic = traffic, !.duration = duration,
                 !.replace_traffic = replace_traffic,
                 !.replace_duration = replace_duration,
                 !.before = panel[user_id],
                 !.overlap = {q \in Procs \ {p} : Active(q)},
                 !.pc = "upd_get"])
    /\ UNCHANGED <<logged_in, startup, users, promocodes, panel, now, promoMutations>>

\* is_client_exists, lines 75-81, and the branch of lines 280-283 / 297-300.
\* The lookup is not guarded: a failure propagates to the caller.
is_client_exists(p, ok) ==
    LET r == proc[p]
    IN  /\ r.pc = "exists"
        /\ Set(p, IF ~ok
                  THEN [r EXCEPT !.lookups = @ + 1, !.existsResult = "failed",
                          !.ret = "raised", !.pc = "done"]
                  ELSE IF panel[r.user] # None
                  THEN [r EXCEPT !.lookups = @ + 1, !.existsResult = "found",
                          !.pc = "upd_get"]
                  ELSE [r EXCEPT !.lookups = @ + 1, !.existsResult = "absent",
                          !.pc = "add"])
        /\ UNCHANGED <<logged_in, startup, users, promocodes, panel, now, promoMutations>>

\* The service call is over; handle_promocode_input goes on with its result.
Finished(r) ==
    IF r.op = "promocode" THEN [r EXCEPT !.pc = "hp_result", !.ret = "none"]
    ELSE [r EXCEPT !.pc = "done", !.ret = "none"]

\* update_client, lines 151-171: get_by_email and the new values.  A failed
\* lookup, or a client that is gone (client.total on None), ends in the
\* except clause.  days_to_timestamp reads the clock, at instant t.
UpdateClientGet(p, ok, t) ==
    LET r == proc[p]
        client == panel[r.user]
        found == ok /\ client # None
    IN  /\ r.pc = "upd_get"
        /\ (found /\ r.replace_duration) \/ t = now
        /\ now' = t
        /\ Set(p, IF ~found
                  THEN Finished([r EXCEPT !.lookups = @ + 1,
                                   !.getResult = "failed"])
                  ELSE [r EXCEPT !.lookups = @ + 1, !.getResult = "found",
                          !.old = client, !.nowAt = t,
                          !.client = UpdatedClient(client, r.vpn_id, r.traffic,
                                        r.duration, r.replace_traffic,
                                        r.replace_duration, t),
                          !.pc = "upd_update"])
        /\ UNCHANGED <<logged_in, startup, users, promocodes, panel, promoMutations>>

CountMutation(r) ==
    promoMutations' = IF r.op = "promocode"
                      THEN [promoMutations EXCEPT ![r.code] = @ + 1]
                      ELSE promoMutations

\* update with its own handler: a failed update still goes on to reset_stats
UpdateClientUpdateGuarded(p, ok) ==
    LET r == proc[p]
        applied == ok /\ panel[r.user] # None
    IN  /\ r.pc = "upd_update"
        /\ CountMutation(r)
        /\ panel' = IF applied
                    THEN [panel EXCEPT ![r.user] =
                            [@ EXCEPT !.id = r.client.id,
                                      !.sub_id = r.client.sub_id,
                                      !.total = r.client.total_gb,
                                      !.expiry_time = r.client.expiry_time]]
                    ELSE panel
        /\ Set(p, [r EXCEPT !.updates = @ + 1, !.sentUpdate = r.client,
                     !.updateResult = IF applied THEN "applied" ELSE "failed",
                     !.wrote = IF applied THEN @ + 1 ELSE @,
                     !.pc = "upd_reset"])
        /\ UNCHANGED <<logged_in, startup, users, promocodes, now>>

\* update_client, line 173: api.client.update(client.id, client)
UpdateClientUpdate(p, ok) ==
    LET r == proc[p]
        applied == ok /\ panel[r.user] # None
    IN  /\ r.pc = "upd_update"
        /\ CountMutation(r)
        /\ IF applied
           THEN /\ panel' = [panel EXCEPT ![r.user] =
                       [@ EXCEPT !.id = r.client.id,
                                 !.sub_id = r.client.sub_id,
                                 !.total = r.client.total_gb,
                                 !.expiry_time = r.client.expiry_time]]
                /\ Set(p, [r EXCEPT !.updates = @ + 1, !.sentUpdate = r.client,
                             !.updateResult = "applied", !.wrote = @ + 1,
                             !.pc = "upd_reset"])
           ELSE /\ panel' = panel
                /\ Set(p, Finished([r EXCEPT !.updates = @ + 1,
                                      !.sentUpdate = r.client,
                                      !.updateResult = "failed"]))
        /\ UNCHANGED <<logged_in, startup, users, promocodes, now>>

\* update_client, lines 174-177: api.client.reset_stats(inbound_id, email)
UpdateClientReset(p, ok) ==
    LET r == proc[p]
        applied == ok /\ panel[r.user] # None
    IN  /\ r.pc = "upd_reset"
        /\ IF applied
           THEN /\ panel' = [panel EXCEPT ![r.user] =
                       [@ EXCEPT !.up = Bytes(0), !.down = Bytes(0)]]
                /\ Set(p, Finished([r EXCEPT !.resets = @ + 1,
                                      !.resetResult = "applied",
                                      !.wrote = @ + 1]))
           ELSE /\ panel' = panel
                /\ Set(p, Finished([r EXCEPT !.resets = @ + 1,
                                      !.resetResult = "failed"]))
        /\ UNCHANGED <<logged_in, startup, users, promocodes, now, promoMutations>>

\* create_client, lines 193-208: one api.client.add(inbound_id, [new_client]).
\* The panel refuses an email it already has; either failure is logged.
\* days_to_timestamp reads the clock, at instant t.
create_client(p, ok, t) ==
    LET r == proc[p]
        new_client == NewClient(r.user, r.vpn_id, r.traffic, r.duration, t)
    IN  /\ r.pc = "add"
        /\ now' = t
        /\ CountMutation(r)
        /\ IF ok /\ panel[r.user] = None
           THEN /\ panel' = [panel EXCEPT ![r.user] =
                       [id |-> new_client.id, sub_id |-> new_client.sub_id,
                        total |-> new_client.totalGB, up |-> Bytes(0),
                        down |-> Bytes(0),
                        expiry_time |-> new_client.expiryTime]]
                /\ Set(p, Finished([r EXCEPT !.adds = @ + 1, !.nowAt = t,
                                      !.sentAdd = new_client,
                                      !.addResult = "created",
                                      !.wrote = @ + 1]))
           ELSE /\ panel' = panel
                /\ Set(p, Finished([r EXCEPT !.adds = @ + 1, !.nowAt = t,
                                      !.sentAdd = new_client,
                                      !.addResult = IF ok THEN "duplicate"
                                                    ELSE "lost"]))
        /\ UNCHANGED <<logged_in, startup, users, promocodes>>

(***************************************************************************)
(* DBSessionMiddleware and the handlers behind it.                         *)
(***************************************************************************)
\* PromocodeService.activate_promocode(code, user_id): marks the row consumed
promocode_service_activate(code) ==
    [promocodes EXCEPT ![code] = [@ EXCEPT !.is_activated = TRUE]]

\* DBSessionMiddleware.__call__, lines 27-48.  For a user without a row the
\* arguments of User.create read user.id with user = None: AttributeError,
\* nothing is created and the handler is not called.
Middleware(p, tg_id, is_bot, handler, text) ==
    /\ CanStart(p)
    /\ Set(p, IF is_bot
              THEN [Idle EXCEPT !.op = "middleware", !.user = tg_id,
                      !.is_bot = TRUE, !.handlerCalled = TRUE, !.ret = "none", !.pc = "done"]
              ELSE IF users[tg_id] = NoRow
              THEN [Idle EXCEPT !.op = "middleware", !.user = tg_id,
                      !.ret = "raised", !.pc = "done"]
              ELSE [Idle EXCEPT !.op = handler, !.user = tg_id,
                      !.vpn_id = users[tg_id], !.dataUser = users[tg_id],
                      !.handlerCalled = TRUE, !.before = panel[tg_id],
                      !.code = IF handler = "promocode" THEN text ELSE "",
                      !.overlap = {q \in Procs \ {p} : Active(q)},
                      !.pc = IF handler = "promocode" THEN "hp_get"
                             ELSE "gcd"])
    /\ UNCHANGED <<logged_in, startup, users, promocodes, panel, now, promoMutations>>

\* handle_promocode_input, lines 42-47 and 62-64
handle_promocode_input(p) ==
    LET r == proc[p]
        promocode == promocodes[r.code]
    IN  /\ r.pc = "hp_get"
        /\ Set(p, IF promocode # None /\ ~promocode.is_activated
                  THEN [r EXCEPT !.traffic = promocode.traffic,
                          !.duration = promocode.duration,
                          !.promoSeen = "valid", !.pc = "ap_consume"]
                  ELSE [r EXCEPT !.shown = "activate_invalid",
                          !.promoSeen = IF promocode = None THEN "missing"
                                        ELSE "used",
                          !.ret = "none", !.pc = "done"])
        /\ UNCHANGED <<logged_in, startup, users, promocodes, panel, now, promoMutations>>

\* activate_promocode without the call that consumes the promocode
activate_promocode_unconsumed(p) ==
    LET r == proc[p]
    IN  /\ r.pc = "ap_consume"
        /\ Set(p, [r EXCEPT !.consumed = TRUE, !.pc = "exists"])
        /\ UNCHANGED <<logged_in, startup, users, promocodes, panel, now, promoMutations>>

\* VPNService.activate_promocode, lines 294-296: the promocode is consumed,
\* then the user is read; the existence check follows.
activate_promocode(p) ==
    LET r == proc[p]
    IN  /\ r.pc = "ap_consume"
        /\ promocodes' = promocode_service_activate(r.code)
        /\ Set(p, [r EXCEPT !.consumed = TRUE, !.pc = "exists"])
        /\ UNCHANGED <<logged_in, startup, users, panel, now, promoMutations>>

\* handle_promocode_input, lines 47-61: success is what activate_promocode
\* returned, and activate_promocode has no return statement.
HandlePromocodeResult(p) ==
    LET r == proc[p]
        success == r.ret = "true"
    IN  /\ r.pc = "hp_result"
        /\ Set(p, [r EXCEPT !.shown = IF success THEN "activated_success"
                                      ELSE "activate_failed",
                     !.ret = "none", !.pc = "done"])
        /\ UNCHANGED <<logged_in, startup, users, promocodes, panel, now, promoMutations>>

\* get_client_data without the try: a failed lookup raises
get_client_data_unguarded(p, ok) ==
    LET r == proc[p]
        client == panel[r.user]
    IN  /\ r.pc = "gcd"
        /\ Set(p, [r EXCEPT !.lookups = @ + 1,
                     !.getResult = IF ~ok THEN "failed"
                                   ELSE IF client = None THEN "absent"
                                   ELSE "found",
                     !.old = IF ok THEN client ELSE None,
                     !.view = IF ~ok \/ client = None THEN None
                              ELSE ClientData(client),
                     !.ret = IF ok THEN "returned" ELSE "raised",
                     !.pc = "done"])
        /\ UNCHANGED <<logged_in, startup, users, promocodes, panel, now, promoMutations>>

\* get_client_data, lines 94-123
get_client_data(p, ok) ==
    LET r == proc[p]
        client == panel[r.user]
    IN  /\ r.pc = "gcd"
        /\ Set(p, [r EXCEPT !.lookups = @ + 1,
                     !.getResult = IF ~ok THEN "failed"
                                   ELSE IF client = None THEN "absent"
                                   ELSE "found",
                     !.old = IF ok THEN client ELSE None,
                     !.view = IF ~ok \/ client = None THEN None
                              ELSE ClientData(client),
                     !.ret = "returned", !.pc = "done"])
        /\ UNCHANGED <<logged_in, startup, users, promocodes, panel, now, promoMutations>>

Traffics == 0..MaxTraffic
Durations == 0..MaxDuration
Handlers == {"promocode", "subscription"}

\* The entry points the bot's callers use and the steps behind them
Step(p) ==
    \/ \E u \in UserIds, t \in Traffics, d \in Durations :
          create_subscription(p, u, t, d)
    \/ \E u \in UserIds, is_bot \in BOOLEAN, h \in Handlers, c \in Codes :
          Middleware(p, u, is_bot, h, c)
    \/ handle_promocode_input(p)
    \/ activate_promocode(p)
    \/ \E ok \in BOOLEAN : is_client_exists(p, ok)
    \/ \E ok \in BOOLEAN, t \in ClockReadings : UpdateClientGet(p, ok, t)
    \/ \E ok \in BOOLEAN : UpdateClientUpdate(p, ok)
    \/ \E ok \in BOOLEAN : UpdateClientReset(p, ok)
    \/ \E ok \in BOOLEAN, t \in ClockReadings : create_client(p, ok, t)
    \/ HandlePromocodeResult(p)
    \/ \E ok \in BOOLEAN : get_client_data(p, ok)

\* update_client called on its own, with every combination of the flags
DirectUpdate(p) ==
    \E u \in UserIds, t \in Traffics, d \in Durations,
       rt \in BOOLEAN, rd \in BOOLEAN :
       update_client(p, u, t, d, rt, rd)

\* initialize with a login failure logged instead of raised
initialize_swallowed(ok) ==
    /\ startup = "calling"
    /\ logged_in' = ok
    /\ startup' = "returned"
    /\ UNCHANGED <<users, promocodes, panel, now, proc, promoMutations>>

\* initialize, lines 55-63: one awaited api.login(); a rejected login raises
\* out of the method, there is no try block.
initialize(ok) ==
    /\ startup = "calling"
    /\ logged_in' = ok
    /\ startup' = IF ok THEN "returned" ELSE "raised"
    /\ UNCHANGED <<users, promocodes, panel, now, proc, promoMutations>>

\* The application's startup around initialize: requests are served once
\* initialize has returned, and the process stops when it raised.
StartServing ==
    /\ startup \in {"returned", "raised"}
    /\ startup' = IF startup = "returned" THEN "serving" ELSE "stopped"
    /\ UNCHANGED <<users, promocodes, panel, now, proc, promoMutations, logged_in>>

Startup == (\E ok \in BOOLEAN : initialize(ok)) \/ StartServing

\* Two coroutines running the bot's entry points concurrently
Next == Startup \/ \E p \in Procs : Step(p)

\* One coroutine; update_client is also called directly
NextSeq == Startup \/ Step(1) \/ DirectUpdate(1)

Spec == Init /\ [][Next]_vars

SpecSeq == InitSeq /\ [][NextSeq]_vars

(***************************************************************************)
(* Vocabulary of the properties.                                           *)
(***************************************************************************)
Concurrent(p, q) == q \in proc[p].overlap \/ p \in proc[q].overlap

\* No other coroutine has changed the panel
OthersQuiet(p) == \A q \in Procs \ {p} : proc[q].wrote = 0

ServiceOver(p) == proc[p].pc \in {"hp_result", "done"}

\* A panel call of the invocation failed
PanelFailure(p) ==
    \/ proc[p].existsResult = "failed"
    \/ proc[p].getResult = "failed"
    \/ proc[p].addResult \in {"lost", "duplicate"}
    \/ proc[p].updateResult = "failed"

(***************************************************************************)
(* C1: two concurrent create_subscription calls for the same user, whose   *)
(* panel calls all get through, issue at most one 'add' for that user's    *)
(* email between them.                                                     *)
(***************************************************************************)
C1_AtMostOneAdd ==
    \A p, q \in Procs :
        ( /\ p # q
          /\ Concurrent(p, q)
          /\ proc[p].op = "create_subscription"
          /\ proc[q].op = "create_subscription"
          /\ proc[p].user = proc[q].user
          /\ proc[p].before = None /\ proc[q].before = None
          /\ proc[p].addResult # "lost" /\ proc[q].addResult # "lost" )
        => proc[p].adds + proc[q].adds <= 1

(***************************************************************************)
(* C2: activate_promocode consumes the promocode before it issues any      *)
(* panel call, and when the lookup, the add or the update then fails the   *)
(* promocode stays consumed while the invocation has changed nothing on    *)
(* the panel.                                                              *)
(***************************************************************************)
C2_ConsumedBeforePanel ==
    \A p \in Procs :
        proc[p].op = "promocode" =>
            /\ ~proc[p].consumed =>
                  proc[p].lookups + proc[p].adds + proc[p].updates
                     + proc[p].resets = 0
            /\ proc[p].consumed => promocodes[proc[p].code].is_activated
            /\ (ServiceOver(p) /\ proc[p].consumed /\ PanelFailure(p)) =>
                  /\ promocodes[proc[p].code].is_activated
                  /\ proc[p].wrote = 0
                  /\ OthersQuiet(p) => panel[proc[p].user] = proc[p].before

C2_Witness ==
    \E p \in Procs :
        /\ proc[p].op = "promocode"
        /\ proc[p].pc = "done"
        /\ proc[p].consumed
        /\ proc[p].addResult = "lost"
        /\ panel[proc[p].user] = None

(***************************************************************************)
(* C3: an attempt on a missing or already activated code shows the         *)
(* invalid outcome and issues no call; is_activated never returns to       *)
(* false; at most one attempt per code issues a panel add or update.       *)
(***************************************************************************)
InvalidAttemptsStop ==
    \A p \in Procs :
        (proc[p].op = "promocode" /\ proc[p].promoSeen \in {"missing", "used"})
        => /\ proc[p].shown = "activate_invalid"
           /\ ~proc[p].consumed
           /\ proc[p].lookups + proc[p].adds + proc[p].updates
                 + proc[p].resets = 0

\* A code seen activated, or consumed by an attempt, is activated ever after
ActivationIsFinal ==
    \A p \in Procs :
        (proc[p].op = "promocode"
           /\ (proc[p].promoSeen = "used" \/ proc[p].consumed))
        => promocodes[proc[p].code].is_activated

C3_SingleUse ==
    /\ InvalidAttemptsStop
    /\ ActivationIsFinal
    /\ \A c \in Codes : promoMutations[c] <= 1

(***************************************************************************)
(* C4: create_subscription takes exactly one branch.  With no client on    *)
(* the panel it issues exactly one 'add' and no 'update' or 'reset_stats', *)
(* the added client carrying email = user id, id = sub_id = vpn_id,        *)
(* totalGB = traffic GB in bytes and expiryTime = now + duration days in   *)
(* epoch milliseconds; with a client it issues an update and no 'add'.     *)
(***************************************************************************)
AddedAsSpecified(p) ==
    LET r == proc[p]
        c == r.sentAdd
    IN  /\ c # None
        /\ c.email = r.user
        /\ c.id = r.vpn_id /\ c.sub_id = r.vpn_id
        /\ c.totalGB = [gb |-> r.traffic, b |-> 0]
        /\ c.expiryTime = timestamp_ms(r.nowAt + r.duration * MsPerDay)

CreateBranch(p) ==
    /\ proc[p].adds = 1 /\ proc[p].updates = 0 /\ proc[p].resets = 0
    /\ AddedAsSpecified(p)

C5_UpdateArithmetic ==
    \A p \in Procs :
        proc[p].sentUpdate # None =>
            LET r == proc[p]
                granted == [gb |-> r.traffic, b |-> 0]
            IN  /\ r.sentUpdate.total_gb =
                      IF r.replace_traffic THEN granted
                      ELSE BAdd(r.old.total, granted)
                /\ r.sentUpdate.expiry_time =
                      IF r.replace_duration
                      THEN r.nowAt + r.duration * MsPerDay
                      ELSE r.old.expiry_time + r.duration * MsPerDay

(***************************************************************************)
(* C6: the view get_client_data returns for a remote client: used = up +   *)
(* down; total <= 0 gives total = remaining = -1; otherwise total and      *)
(* total - used, not clamped; expiry_time is -1 exactly when the raw       *)
(* expiry is 0 and the raw expiry otherwise.                               *)
(***************************************************************************)
C6_ClientDataView ==
    \A p \in Procs :
        (proc[p].op = "subscription" /\ proc[p].pc = "done"
           /\ proc[p].getResult = "found") =>
            LET c == proc[p].old
                v == proc[p].view
                used == BAdd(c.up, c.down)
                nonpositive == c.total.gb < 0 \/ c.total = Bytes(0)
            IN  /\ v # None
                /\ v.traffic_used = used
                /\ v.traffic_up = c.up /\ v.traffic_down = c.down
                /\ nonpositive => /\ v.traffic_total = Bytes(0 - 1)
                                  /\ v.traffic_remaining = Bytes(0 - 1)
                /\ ~nonpositive => /\ v.traffic_total = c.total
                                   /\ v.traffic_remaining = BSub(c.total, used)
                /\ v.expiry_time = 0 - 1 <=> c.expiry_time = 0
                /\ c.expiry_time # 0 => v.expiry_time = c.expiry_time

\* usage above the quota: the remaining traffic is negative
C6_Witness ==
    \E p \in Procs :
        /\ proc[p].op = "subscription" /\ proc[p].pc = "done"
        /\ proc[p].getResult = "found"
        /\ proc[p].old.total = Bytes(3)
        /\ proc[p].view.traffic_remaining = Bytes(0 - 2)

(***************************************************************************)
(* C7: a failed 'add' or 'update' during create_subscription is not        *)
(* retried, and the caller gets an outcome that differs from the outcome   *)
(* of a call whose mutation succeeded.                                     *)
(***************************************************************************)
MutationSucceeded(p) ==
    proc[p].addResult = "created" \/ proc[p].updateResult = "applied"

MutationFailed(p) ==
    proc[p].addResult \in {"lost", "duplicate"}
       \/ proc[p].updateResult = "failed"

C7_FailureSurfaced ==
    /\ \A p \in Procs :
          proc[p].op = "create_subscription" =>
              proc[p].adds <= 1 /\ proc[p].updates <= 1
    /\ \A p, q \in Procs :
          ( /\ proc[p].op = "create_subscription" /\ proc[p].pc = "done"
            /\ proc[q].op = "create_subscription" /\ proc[q].pc = "done"
            /\ MutationSucceeded(p) /\ MutationFailed(q) )
          => proc[p].ret # proc[q].ret

(***************************************************************************)
(* C8: update_client issues 'update' first and 'reset_stats' second and    *)
(* rolls nothing back.  A failed update means no reset_stats and an        *)
(* unchanged client; an applied update with a failed reset_stats leaves    *)
(* the new quota and expiry in place and the old up and down; either way   *)
(* update_client returns normally after one attempt of each call.          *)
(***************************************************************************)
C8_UpdateThenReset ==
    \A p \in Procs :
        LET r == proc[p]
        IN  /\ r.updates <= 1 /\ r.resets <= 1
            /\ r.resets > 0 => r.updateResult = "applied"
            /\ r.updateResult = "failed" =>
                  /\ r.resets = 0 /\ r.wrote = 0
                  /\ ServiceOver(p) /\ r.ret = "none"
                  /\ OthersQuiet(p) => panel[r.user] = r.old
            /\ (r.updateResult = "applied" /\ r.resetResult = "failed") =>
                  /\ ServiceOver(p) /\ r.ret = "none"
                  /\ OthersQuiet(p) =>
                        /\ panel[r.user].total = r.sentUpdate.total_gb
                        /\ panel[r.user].expiry_time = r.sentUpdate.expiry_time
                        /\ panel[r.user].up = r.old.up
                        /\ panel[r.user].down = r.old.down

C8_Witness ==
    \E p \in Procs :
        /\ proc[p].updateResult = "applied"
        /\ proc[p].resetResult = "failed"
        /\ proc[p].pc = "done"
        /\ proc[p].old.up = Bytes(2)
        /\ panel[proc[p].user].up = Bytes(2)
        /\ panel[proc[p].user].total # proc[p].old.total

(***************************************************************************)
(* C9: get_client_data never raises; it returns None when the panel has    *)
(* no client or the lookup fails, a record otherwise; it issues no add,    *)
(* update or reset_stats and leaves the remote client as it was.           *)
(***************************************************************************)
C9_PureRead ==
    \A p \in Procs :
        (proc[p].op = "subscription" /\ proc[p].pc = "done") =>
            /\ proc[p].ret = "returned"
            /\ proc[p].getResult \in {"absent", "failed"} =>
                  proc[p].view = None
            /\ proc[p].getResult = "found" => proc[p].view # None
            /\ proc[p].adds + proc[p].updates + proc[p].resets = 0
            /\ proc[p].wrote = 0
            /\ OthersQuiet(p) => panel[proc[p].user] = proc[p].before

C9_Witness ==
    \E p \in Procs :
        /\ proc[p].op = "subscription" /\ proc[p].pc = "done"
        /\ proc[p].getResult = "failed"
        /\ proc[p].view = None
        /\ panel[proc[p].user] # None

(***************************************************************************)
(* C10: an update from a non-bot Telegram user reaches the handler with    *)
(* the user's row, which the middleware creates on first contact with      *)
(* tg_id = the Telegram id and a vpn_id, and reuses afterwards.            *)
(***************************************************************************)
C10_RowOnFirstContact ==
    \A p \in Procs :
        (proc[p].op \in {"middleware", "promocode", "subscription"}
           /\ ~proc[p].is_bot) =>
            /\ users[proc[p].user] # NoRow
            /\ proc[p].handlerCalled
            /\ proc[p].dataUser = users[proc[p].user]
(***************************************************************************)
(* C11: initialize (panel login) completes successfully before any other   *)
(* operation: a coroutine that has started a request or issued a panel     *)
(* call (get_by_email, add, update, reset_stats) implies that login has    *)
(* succeeded, and after a rejected login no request is ever served.        *)
(***************************************************************************)
PanelCalls(p) ==
    proc[p].lookups + proc[p].adds + proc[p].updates + proc[p].resets

C11_LoginFirst ==
    /\ \A p \in Procs : PanelCalls(p) > 0 => logged_in
    /\ \A p \in Procs : proc[p] # Idle => logged_in /\ startup = "serving"
    /\ ~logged_in /\ startup # "calling" =>
          startup \in {"raised", "stopped"} /\ \A p \in Procs : proc[p] = Idle

\* login succeeded and the service then issued a lookup and an add
C11_Witness ==
    /\ logged_in
    /\ \E p \in Procs : proc[p].lookups > 0 /\ proc[p].adds > 0

(***************************************************************************)
(* C12: an additive update_client (replace_traffic and replace_duration    *)
(* both false, traffic >= 0, duration >= 0) never makes the subscription   *)
(* more restrictive: a client whose quota was unlimited (total <= 0) is    *)
(* still reported with traffic_total = -1 after the update, and a client   *)
(* without expiry (expiry_time = 0) is still reported with expiry_time =   *)
(* -1.                                                                     *)
(***************************************************************************)
AdditiveUpdateApplied(p) ==
    /\ proc[p].updateResult = "applied"
    /\ ~proc[p].replace_traffic /\ ~proc[p].replace_duration
    /\ proc[p].traffic >= 0 /\ proc[p].duration >= 0
    /\ OthersQuiet(p)

C12_AdditiveNeverRestricts ==
    \A p \in Procs :
        AdditiveUpdateApplied(p) =>
            LET r == proc[p]
                after == ClientData(panel[r.user])
            IN  /\ BLeqZero(r.old.total) => after.traffic_total = Bytes(0 - 1)
                /\ r.old.expiry_time = 0 => after.expiry_time = 0 - 1

(***************************************************************************)
(* C13: the outcome handle_promocode_input shows matches what happened.    *)
(* For a valid promocode that was not yet activated: when                  *)
(* activate_promocode consumed the code and the panel add or update        *)
(* succeeded, the handler shows the activated-success text; it shows the   *)
(* activate-failed notification only when the activation did not succeed.  *)
(***************************************************************************)
ActivationSucceeded(p) ==
    proc[p].consumed /\ MutationSucceeded(p)

C13_OutcomeMatches ==
    \A p \in Procs :
        ( /\ proc[p].op = "promocode"
          /\ proc[p].promoSeen = "valid"
          /\ proc[p].pc = "done"
          /\ proc[p].shown # "none" )
        => /\ ActivationSucceeded(p) => proc[p].shown = "activated_success"
           /\ proc[p].shown = "activate_failed" => ~ActivationSucceeded(p)

====
